---- MODULE Spec2Model ----
(***************************************************************************)
(* keiba: ingestion of race result files into the SQLite store             *)
(* (data_loader.py, database.py) and the trio recommendation engine        *)
(* (analysis.py).                                                          *)
(*                                                                         *)
(* Numbers: payouts read from files are integer valued; every quotient the *)
(* code computes in floating point is kept here as an exact fraction       *)
(* <<numerator, denominator>> in lowest terms with a positive denominator. *)
(* A REAL column is <<>> when it holds NULL and <<v>> when it holds v.     *)
(***************************************************************************)
EXTENDS Integers, Sequences, FiniteSets, TLC

VARIABLES
    initialized,        \* the tables races / race_entries exist in the store
    races,              \* rows of table races
    race_entries,       \* rows of table race_entries
    entry_seq,          \* AUTOINCREMENT counter of race_entries.id
    ingests,            \* number of ingest calls made so far
    last_ingest,        \* the last successful ingest: its file, its report and
                        \* how many times in a row that file was ingested
    pc,                 \* position inside recommend_bets ("idle" between calls)
    args,               \* keyword arguments of the running recommend_bets call
    queried,            \* the running call has executed its query on the store
    rows,               \* local rows of _fetch_trifecta_statistics
    idx,                \* number of rows the grouping loop has consumed
    current_race,       \* local current_race (<<>> is None)
    current_entries,    \* local current_entries
    combo_stats,        \* local combo_stats: combination -> statistics
    total_races,        \* local total_races
    recommendations,    \* local recommendations of recommend_bets, after the sort
    outcome,            \* what the last operation returned or raised
    cli                 \* what main printed for "suggest" and how it ended

vars == <<initialized, races, race_entries, entry_seq, ingests, last_ingest, pc,
          args, queried, rows, idx, current_race, current_entries, combo_stats,
          total_races, recommendations, outcome, cli>>

store == <<initialized, races, race_entries, entry_seq>>

frame == <<args, queried, rows, idx, current_race, current_entries, combo_stats,
           total_races, recommendations>>

\* Number of ingest calls explored.
MaxIngests == 2

-----------------------------------------------------------------------------
(* Cells of a data file.  A cell is the text of one CSV field: the decimal *)
(* text of an integer, the text "nan", or text that is no number.          *)

IntCell(n) == [kind |-> "int", val |-> n]
NanCell == [kind |-> "nan", val |-> 0]
JunkCell == [kind |-> "junk", val |-> 0]

\* int(record[key]): only integer text converts; anything else raises
\* DataValidationError (ok is FALSE).
_cast_int(cell) == [ok |-> cell.kind = "int", val |-> cell.val]

\* float(record[key]): integer text and "nan" convert.  sqlite3 binds a NaN
\* parameter as NULL, so a "nan" cell reaches the REAL column as NULL (<<>>).
_cast_float(cell) ==
    [ok |-> cell.kind \in {"int", "nan"},
     val |-> IF cell.kind = "int" THEN <<cell.val>> ELSE << >>]

\* str.strip() on the race identifiers that occur in the files.
strip(text) == IF text = "R1 " THEN "R1" ELSE text

REQUIRED_COLUMNS ==
    {"race_id", "date", "racecourse", "distance", "track_condition",
     "num_runners", "track_direction", "weather", "horse_number", "horse_name",
     "popularity", "finish_position", "odds_win", "odds_place", "return_win",
     "return_place"}

-----------------------------------------------------------------------------
(* The data files offered to ingest.                                       *)

DistanceOf(course) == IF course = "Tokyo" THEN 1600 ELSE 2000

CsvRow(rid, course, horse, pop, fin, win, place) ==
    [race_id |-> rid, date |-> "2024-01-01", racecourse |-> course,
     distance |-> IntCell(DistanceOf(course)), track_condition |-> "good",
     num_runners |-> IntCell(4), track_direction |-> "left", weather |-> "fine",
     horse_number |-> horse, horse_name |-> "uma", popularity |-> pop,
     finish_position |-> fin, odds_win |-> IntCell(3), odds_place |-> IntCell(2),
     return_win |-> win, return_place |-> place]

\* A well formed row: integer horse number, popularity, finish position, payouts.
Row(rid, course, horse, pop, fin, win, place) ==
    CsvRow(rid, course, IntCell(horse), IntCell(pop), IntCell(fin),
           IntCell(win), IntCell(place))

\* The text of a file that is not read as structured text.
NoText ==
    [has_start |-> FALSE, has_end |-> FALSE, block |-> "empty",
     races_is_list |-> FALSE, races |-> << >>]

CsvFile(name, lines) ==
    [path |-> name, suffix |-> ".csv", exists |-> TRUE,
     columns |-> REQUIRED_COLUMNS, lines |-> lines, text |-> NoText]

\* Three Tokyo races won by the favourites 1-2-3 with blended returns 250, 300, 260.
FileFavourites ==
    CsvFile("favourites.csv",
        << Row("R1", "Tokyo", 1, 1, 1, 100, 50), Row("R1", "Tokyo", 2, 2, 2, 0, 50),
           Row("R1", "Tokyo", 3, 3, 3, 0, 50),
           Row("R2", "Tokyo", 1, 2, 1, 150, 50), Row("R2", "Tokyo", 2, 1, 2, 0, 50),
           Row("R2", "Tokyo", 3, 3, 3, 0, 50),
           Row("R3", "Tokyo", 1, 3, 1, 110, 50), Row("R3", "Tokyo", 2, 2, 2, 0, 50),
           Row("R3", "Tokyo", 3, 1, 3, 0, 50) >>)

\* One Kyoto race finished 2-3-4, the favourite fourth.
FileOutsiders ==
    CsvFile("outsiders.csv",
        << Row("R4", "Kyoto", 1, 4, 1, 300, 100), Row("R4", "Kyoto", 2, 2, 2, 40, 100),
           Row("R4", "Kyoto", 3, 3, 3, 0, 100), Row("R4", "Kyoto", 4, 1, 4, 0, 0) >>)

\* A corrected result of race R1 (1-2-4) and a dead heat for first in R5 with
\* a place payout that is not a number.
FileRevision ==
    CsvFile("revision.csv",
        << Row("R1", "Tokyo", 1, 1, 1, 200, 60), Row("R1", "Tokyo", 2, 2, 2, 0, 60),
           Row("R1", "Tokyo", 3, 4, 3, 0, 60),
           Row("R5", "Tokyo", 1, 1, 1, 120, 40), Row("R5", "Tokyo", 2, 2, 1, 130, 40),
           CsvRow("R5", "Tokyo", IntCell(3), IntCell(4), IntCell(3), IntCell(0), NanCell) >>)

\* Race R6: four runners, the fourth scratched and recorded with finish position 0.
\* Race R7: the winner is recorded with finish position 0, two placed horses.
FileScratched ==
    CsvFile("scratched.csv",
        << Row("R6", "Kyoto", 1, 1, 1, 100, 50), Row("R6", "Kyoto", 2, 2, 2, 0, 50),
           Row("R6", "Kyoto", 3, 3, 3, 0, 50), Row("R6", "Kyoto", 4, 4, 0, 0, 0),
           Row("R7", "Kyoto", 1, 2, 0, 0, 0), Row("R7", "Kyoto", 2, 3, 2, 0, 70),
           Row("R7", "Kyoto", 3, 5, 3, 0, 70) >>)

\* Race R8 has a runner without popularity rank (0); race R9 has two finishers only.
FileIncomplete ==
    CsvFile("incomplete.csv",
        << Row("R8", "Tokyo", 1, 0, 1, 100, 50), Row("R8", "Tokyo", 2, 2, 2, 0, 50),
           Row("R8", "Tokyo", 3, 3, 3, 0, 50),
           Row("R9", "Tokyo", 1, 1, 1, 100, 50), Row("R9", "Tokyo", 2, 2, 2, 0, 50),
           Row("R9", "Tokyo", 3, 3, 5, 0, 0) >>)

\* The same runner twice, the race identifier once with a trailing blank.
FileRepeated ==
    CsvFile("repeated.csv",
        << Row("R1 ", "Kyoto", 1, 2, 1, 100, 50), Row("R1", "Tokyo", 1, 3, 1, 90, 30),
           Row("R1", "Tokyo", 2, 4, 2, 0, 30), Row("R1", "Tokyo", 3, 5, 3, 0, 30) >>)

\* The second line has a popularity that is no integer.
FileBadCell ==
    CsvFile("badcell.csv",
        << Row("R2", "Kyoto", 1, 1, 1, 100, 50),
           CsvRow("R2", "Kyoto", IntCell(2), JunkCell, IntCell(2), IntCell(0), IntCell(50)) >>)

\* The header lacks the column popularity.
FileBadHeader ==
    [path |-> "badheader.csv", suffix |-> ".csv", exists |-> TRUE,
     columns |-> REQUIRED_COLUMNS \ {"popularity"},
     lines |-> << Row("R3", "Kyoto", 1, 1, 1, 100, 50) >>, text |-> NoText]

\* A path at which there is no file.
FileMissing ==
    [path |-> "missing.csv", suffix |-> ".csv", exists |-> FALSE, columns |-> {},
     lines |-> << >>, text |-> NoText]

\* A JSON null.
NullCell == [kind |-> "null", val |-> 0]

RACE_KEYS ==
    {"race_id", "date", "racecourse", "distance", "track_condition",
     "num_runners", "track_direction", "weather"}

ENTRY_KEYS ==
    {"horse_number", "horse_name", "popularity", "finish_position", "odds_win",
     "odds_place", "return_win", "return_place"}

\* One element of an "entries" list of the JSON payload, a mapping with all keys.
TxtEntry(horse, pop, fin, win, place) ==
    [is_dict |-> TRUE, keys |-> ENTRY_KEYS, horse_number |-> IntCell(horse),
     horse_name |-> "uma", popularity |-> pop, finish_position |-> IntCell(fin),
     odds_win |-> IntCell(3), odds_place |-> IntCell(2),
     return_win |-> IntCell(win), return_place |-> IntCell(place)]

\* One element of the "races" list of the JSON payload, a mapping with all keys.
TxtRace(rid, course, runners, entries) ==
    [is_dict |-> TRUE, keys |-> RACE_KEYS, race_id |-> rid, date |-> "2024-01-01",
     racecourse |-> course, distance |-> IntCell(DistanceOf(course)),
     track_condition |-> "good", num_runners |-> IntCell(runners),
     track_direction |-> "left", weather |-> "fine",
     entries_is_list |-> TRUE, entries |-> entries]

\* A text file with both markers around a JSON object whose "races" is a list.
TxtFile(name, txt_races) ==
    [path |-> name, suffix |-> ".txt", exists |-> TRUE, columns |-> {},
     lines |-> << >>,
     text |-> [has_start |-> TRUE, has_end |-> TRUE, block |-> "json",
               races_is_list |-> TRUE, races |-> txt_races]]

\* Race R2 at Kyoto, finished 1-3-4.
FileText ==
    TxtFile("results.txt",
        << TxtRace("R2", "Kyoto", 3,
               << TxtEntry(1, IntCell(1), 1, 160, 60), TxtEntry(2, IntCell(3), 2, 0, 60),
                  TxtEntry(3, IntCell(4), 3, 0, 60) >>) >>)

\* A complete race R3 followed by a race that announces 4 runners and lists 3.
FileTextShort ==
    TxtFile("short.txt",
        << TxtRace("R3", "Kyoto", 3,
               << TxtEntry(1, IntCell(2), 1, 160, 60), TxtEntry(2, IntCell(3), 2, 0, 60),
                  TxtEntry(3, IntCell(5), 3, 0, 60) >>),
           TxtRace("R4", "Kyoto", 4,
               << TxtEntry(1, IntCell(1), 1, 160, 60), TxtEntry(2, IntCell(2), 2, 0, 60),
                  TxtEntry(3, IntCell(3), 3, 0, 60) >>) >>)

\* A race whose second entry has the popularity null and whose third entry
\* lacks the key return_place.
FileTextBadEntry ==
    TxtFile("badentry.txt",
        << TxtRace("R1", "Kyoto", 3,
               << TxtEntry(1, IntCell(2), 1, 160, 60), TxtEntry(2, NullCell, 2, 0, 60),
                  [TxtEntry(3, IntCell(5), 3, 0, 60)
                      EXCEPT !.keys = ENTRY_KEYS \ {"return_place"}] >>) >>)

\* A text file without the marker that starts the structured block.
FileTextNoMarker ==
    [path |-> "plain.txt", suffix |-> ".txt", exists |-> TRUE, columns |-> {},
     lines |-> << >>,
     text |-> [has_start |-> FALSE, has_end |-> TRUE, block |-> "json",
               races_is_list |-> TRUE, races |-> << >>]]

\* A file whose extension is neither .csv nor .txt.
FileOtherSuffix ==
    [path |-> "results.json", suffix |-> ".json", exists |-> TRUE, columns |-> {},
     lines |-> << >>, text |-> NoText]

Files ==
    {FileFavourites, FileOutsiders, FileRevision, FileScratched, FileIncomplete,
     FileRepeated, FileBadCell, FileBadHeader, FileMissing, FileText,
     FileTextShort, FileTextBadEntry, FileTextNoMarker, FileOtherSuffix}

-----------------------------------------------------------------------------
(* database.py                                                             *)

\* The row INSERT OR REPLACE INTO races (...) writes: the eight named columns
\* and the column defaults of the schema for surface and sex_category.
RaceRow(rec) ==
    [race_id |-> rec.race_id, date |-> rec.date, racecourse |-> rec.racecourse,
     distance |-> rec.distance, track_condition |-> rec.track_condition,
     surface |-> "unknown", num_runners |-> rec.num_runners,
     track_direction |-> rec.track_direction, weather |-> rec.weather,
     sex_category |-> "mixed"]

\* INSERT OR REPLACE on the PRIMARY KEY race_id: the conflicting row is deleted.
InsertOrReplaceRace(table, rec) ==
    {r \in table : r.race_id # rec.race_id} \cup {RaceRow(rec)}

\* The row INSERT OR REPLACE INTO race_entries (...) writes, with its new id.
EntryRow(id, rec) ==
    [id |-> id, race_id |-> rec.race_id, horse_number |-> rec.horse_number,
     horse_name |-> rec.horse_name, popularity |-> rec.popularity,
     finish_position |-> rec.finish_position, odds_win |-> rec.odds_win,
     odds_place |-> rec.odds_place, return_win |-> rec.return_win,
     return_place |-> rec.return_place]

\* The rows the unique index idx_entries_race_horse sets against rec.
EntryConflicts(table, rec) ==
    {e \in table : e.race_id = rec.race_id /\ e.horse_number = rec.horse_number}

\* A plain INSERT, as if the unique index were missing: nothing is deleted.
InsertEntryKeepingConflicts(db, rec) ==
    [table |-> db.table \cup {EntryRow(db.seq + 1, rec)}, seq |-> db.seq + 1]

\* INSERT OR REPLACE on race_entries: rows conflicting on (race_id, horse_number)
\* are deleted, the new row takes the next AUTOINCREMENT id.
InsertOrReplaceEntry(db, rec) ==
    [table |-> (db.table \ EntryConflicts(db.table, rec))
                   \cup {EntryRow(db.seq + 1, rec)},
     seq |-> db.seq + 1]

\* bulk_insert (executemany) of the race records, one statement per record.
RECURSIVE BulkInsertRaces(_, _)
BulkInsertRaces(table, recs) ==
    IF recs = << >> THEN table
    ELSE BulkInsertRaces(InsertOrReplaceRace(table, Head(recs)), Tail(recs))

\* bulk_insert (executemany) of the entry records, one statement per record.
RECURSIVE BulkInsertEntries(_, _)
BulkInsertEntries(db, recs) ==
    IF recs = << >> THEN db
    ELSE BulkInsertEntries(InsertOrReplaceEntry(db, Head(recs)), Tail(recs))

-----------------------------------------------------------------------------
(* data_loader.py                                                          *)

\* _validate_columns: some required column is missing from the header.
MissingColumns(columns) == REQUIRED_COLUMNS \ columns

\* The casts of one CSV line; a line is valid when every cast succeeds.
LineValid(line) ==
    /\ _cast_int(line.distance).ok
    /\ _cast_int(line.num_runners).ok
    /\ _cast_int(line.horse_number).ok
    /\ _cast_int(line.popularity).ok
    /\ _cast_int(line.finish_position).ok
    /\ _cast_float(line.odds_win).ok
    /\ _cast_float(line.odds_place).ok
    /\ _cast_float(line.return_win).ok
    /\ _cast_float(line.return_place).ok

\* race_records[race_id] = {...} for one line.
RaceRecord(line) ==
    [race_id |-> strip(line.race_id), date |-> line.date,
     racecourse |-> line.racecourse, distance |-> _cast_int(line.distance).val,
     track_condition |-> line.track_condition,
     num_runners |-> _cast_int(line.num_runners).val,
     track_direction |-> line.track_direction, weather |-> line.weather]

\* entry_records.append({...}) for one line.
EntryRecord(line) ==
    [race_id |-> strip(line.race_id),
     horse_number |-> _cast_int(line.horse_number).val,
     horse_name |-> line.horse_name,
     popularity |-> _cast_int(line.popularity).val,
     finish_position |-> _cast_int(line.finish_position).val,
     odds_win |-> _cast_float(line.odds_win).val,
     odds_place |-> _cast_float(line.odds_place).val,
     return_win |-> _cast_float(line.return_win).val,
     return_place |-> _cast_float(line.return_place).val]

\* The dict race_records after the reading loop, as the sequence of its values:
\* a key keeps the position of its first insertion and the value of its last.
RECURSIVE RaceRecords(_)
RaceRecords(lines) ==
    IF lines = << >> THEN << >>
    ELSE LET n == Len(lines)
             before == RaceRecords(SubSeq(lines, 1, n - 1))
             rec == RaceRecord(lines[n])
             known == \E i \in 1..Len(before) : before[i].race_id = rec.race_id
         IN IF known
            THEN [i \in 1..Len(before) |->
                     IF before[i].race_id = rec.race_id THEN rec ELSE before[i]]
            ELSE Append(before, rec)

\* The list entry_records after the reading loop.
EntryRecords(lines) == [i \in 1..Len(lines) |-> EntryRecord(lines[i])]

\* ingest_csv writing each line as it is read: the lines before the first
\* invalid one are in the store when the validation fails.
IngestCsvEffectEager(file) ==
    IF ~file.exists
    THEN [error |-> "FileNotFoundError", init |-> initialized, races |-> races,
          entries |-> race_entries, seq |-> entry_seq, report |-> << >>]
    ELSE IF MissingColumns(file.columns) # {}
    THEN [error |-> "DataValidationError", init |-> TRUE, races |-> races,
          entries |-> race_entries, seq |-> entry_seq, report |-> << >>]
    ELSE LET bad == {i \in 1..Len(file.lines) : ~LineValid(file.lines[i])}
             good == IF bad = {} THEN file.lines
                     ELSE SubSeq(file.lines, 1,
                                 (CHOOSE i \in bad : \A j \in bad : i <= j) - 1)
             race_records == RaceRecords(good)
             entry_records == EntryRecords(good)
             db == BulkInsertEntries([table |-> race_entries, seq |-> entry_seq],
                                     entry_records)
         IN [error |-> IF bad = {} THEN "" ELSE "DataValidationError",
             init |-> TRUE,
             races |-> BulkInsertRaces(races, race_records),
             entries |-> db.table, seq |-> db.seq,
             report |-> IF bad = {}
                        THEN <<Len(race_records), Len(entry_records)>> ELSE << >>]

\* ingest_csv, whole: the existence test, initialize_database, the header and
\* line validation, then both bulk inserts in one connection.
IngestCsvEffect(file) ==
    IF ~file.exists
    THEN [error |-> "FileNotFoundError", init |-> initialized, races |-> races,
          entries |-> race_entries, seq |-> entry_seq, report |-> << >>]
    ELSE IF MissingColumns(file.columns) # {}
            \/ \E i \in 1..Len(file.lines) : ~LineValid(file.lines[i])
    THEN [error |-> "DataValidationError", init |-> TRUE, races |-> races,
          entries |-> race_entries, seq |-> entry_seq, report |-> << >>]
    ELSE LET race_records == RaceRecords(file.lines)
             entry_records == EntryRecords(file.lines)
             db == BulkInsertEntries([table |-> race_entries, seq |-> entry_seq],
                                     entry_records)
         IN [error |-> "", init |-> TRUE,
             races |-> BulkInsertRaces(races, race_records),
             entries |-> db.table, seq |-> db.seq,
             report |-> <<Len(race_records), Len(entry_records)>>]

\* int(value) on a JSON value, lines 192-194 and 223-226: an integer converts,
\* NaN and text that is no number raise ValueError, null raises TypeError.
json_int(cell) == [ok |-> cell.kind = "int", val |-> cell.val]

\* float(value) on a JSON value, lines 227-230: an integer and NaN convert (a
\* NaN is bound as NULL), text that is no number and null raise.
json_float(cell) ==
    [ok |-> cell.kind \in {"int", "nan"},
     val |-> IF cell.kind = "int" THEN <<cell.val>> ELSE << >>]

\* _parse_structured_block raises: a marker is missing, the block is empty or
\* it is no JSON.
BlockInvalid(text) == ~text.has_start \/ ~text.has_end \/ text.block # "json"

\* One entry passes lines 216-238.
TxtEntryValid(entry) ==
    /\ entry.is_dict
    /\ ENTRY_KEYS \subseteq entry.keys
    /\ json_int(entry.horse_number).ok
    /\ json_int(entry.popularity).ok
    /\ json_int(entry.finish_position).ok
    /\ json_float(entry.odds_win).ok
    /\ json_float(entry.odds_place).ok
    /\ json_float(entry.return_win).ok
    /\ json_float(entry.return_place).ok

\* One race passes lines 182-238.
TxtRaceValid(race) ==
    /\ race.is_dict
    /\ RACE_KEYS \subseteq race.keys
    /\ json_int(race.distance).ok
    /\ json_int(race.num_runners).ok
    /\ race.entries_is_list
    /\ Len(race.entries) = json_int(race.num_runners).val
    /\ \A i \in 1..Len(race.entries) : TxtEntryValid(race.entries[i])

\* race_records[race_id] = {...} of lines 187-197.
TxtRaceRecord(race) ==
    [race_id |-> strip(race.race_id), date |-> race.date,
     racecourse |-> race.racecourse, distance |-> json_int(race.distance).val,
     track_condition |-> race.track_condition,
     num_runners |-> json_int(race.num_runners).val,
     track_direction |-> race.track_direction, weather |-> race.weather]

\* entry_records.append({...}) of lines 220-232.
TxtEntryRecord(race, entry) ==
    [race_id |-> strip(race.race_id),
     horse_number |-> json_int(entry.horse_number).val,
     horse_name |-> entry.horse_name,
     popularity |-> json_int(entry.popularity).val,
     finish_position |-> json_int(entry.finish_position).val,
     odds_win |-> json_float(entry.odds_win).val,
     odds_place |-> json_float(entry.odds_place).val,
     return_win |-> json_float(entry.return_win).val,
     return_place |-> json_float(entry.return_place).val]

\* The dict race_records of ingest_txt after its loop, as the sequence of its
\* values.
RECURSIVE TxtRaceRecords(_)
TxtRaceRecords(txt_races) ==
    IF txt_races = << >> THEN << >>
    ELSE LET n == Len(txt_races)
             before == TxtRaceRecords(SubSeq(txt_races, 1, n - 1))
             rec == TxtRaceRecord(txt_races[n])
             known == \E i \in 1..Len(before) : before[i].race_id = rec.race_id
         IN IF known
            THEN [i \in 1..Len(before) |->
                     IF before[i].race_id = rec.race_id THEN rec ELSE before[i]]
            ELSE Append(before, rec)

\* The list entry_records of ingest_txt after its loop.
RECURSIVE TxtEntryRecords(_)
TxtEntryRecords(txt_races) ==
    IF txt_races = << >> THEN << >>
    ELSE LET race == Head(txt_races)
         IN [i \in 1..Len(race.entries) |-> TxtEntryRecord(race, race.entries[i])]
            \o TxtEntryRecords(Tail(txt_races))

\* ingest_txt, whole: the existence test, initialize_database, the structured
\* block, the validation of every race and entry, then both bulk inserts.
IngestTxtEffect(file) ==
    IF ~file.exists
    THEN [error |-> "FileNotFoundError", init |-> initialized, races |-> races,
          entries |-> race_entries, seq |-> entry_seq, report |-> << >>]
    ELSE IF \/ BlockInvalid(file.text)
            \/ ~file.text.races_is_list
            \/ \E i \in 1..Len(file.text.races) : ~TxtRaceValid(file.text.races[i])
    THEN [error |-> "DataValidationError", init |-> TRUE, races |-> races,
          entries |-> race_entries, seq |-> entry_seq, report |-> << >>]
    ELSE LET race_records == TxtRaceRecords(file.text.races)
             entry_records == TxtEntryRecords(file.text.races)
             db == BulkInsertEntries([table |-> race_entries, seq |-> entry_seq],
                                     entry_records)
         IN [error |-> "", init |-> TRUE,
             races |-> BulkInsertRaces(races, race_records),
             entries |-> db.table, seq |-> db.seq,
             report |-> <<Len(race_records), Len(entry_records)>>]

\* ingest_file: the loader is chosen by the extension of the path.
IngestFileEffect(file) ==
    CASE file.suffix = ".csv" -> IngestCsvEffect(file)
      [] file.suffix = ".txt" -> IngestTxtEffect(file)
      [] OTHER -> [error |-> "DataValidationError", init |-> initialized,
                   races |-> races, entries |-> race_entries, seq |-> entry_seq,
                   report |-> << >>]

\* cli "ingest": ingest_file on a path.
Ingest(file) ==
    /\ pc = "idle"
    /\ ingests < MaxIngests
    /\ LET eff == IngestFileEffect(file)
       IN /\ initialized' = eff.init
          /\ races' = eff.races
          /\ race_entries' = eff.entries
          /\ entry_seq' = eff.seq
          /\ last_ingest' =
                IF eff.error # "" THEN last_ingest
                ELSE << [path |-> file.path, report |-> eff.report,
                         times |-> IF last_ingest # << >>
                                      /\ last_ingest[1].path = file.path
                                   THEN last_ingest[1].times + 1 ELSE 1] >>
          /\ outcome' = [op |-> "ingest",
                         status |-> IF eff.error = "" THEN "ok" ELSE eff.error,
                         value |-> eff.report]
    /\ ingests' = ingests + 1
    /\ UNCHANGED <<pc, frame, cli>>

\* cli "init-db": initialize_database creates the tables if they are missing.
InitDb ==
    /\ pc = "idle"
    /\ ~initialized
    /\ initialized' = TRUE
    /\ outcome' = [op |-> "init-db", status |-> "ok", value |-> << >>]
    /\ UNCHANGED <<races, race_entries, entry_seq, ingests, last_ingest, pc, frame,
                   cli>>

-----------------------------------------------------------------------------
(* Exact fractions for the floating point quotients of analysis.py         *)

Abs(n) == IF n < 0 THEN -n ELSE n

RECURSIVE Gcd(_, _)
Gcd(a, b) == IF b = 0 THEN a ELSE Gcd(b, a % b)

\* n / d in lowest terms, d > 0.
Frac(n, d) ==
    LET g == Gcd(Abs(n), Abs(d))
        sign == IF d < 0 THEN -1 ELSE 1
    IN <<sign * (n \div g), sign * (d \div g)>>

FracAdd(x, y) == Frac(x[1] * y[2] + y[1] * x[2], x[2] * y[2])
FracMul(x, y) == Frac(x[1] * y[1], x[2] * y[2])
FracDiv(x, y) == Frac(x[1] * y[2], x[2] * y[1])
FracLess(x, y) == x[1] * y[2] < y[1] * x[2]
FracOfInt(n) == <<n, 1>>

-----------------------------------------------------------------------------
(* analysis.py                                                             *)

alpha == 1

None == << >>
Some(v) == <<v>>

\* The WHERE clause of _build_filters: one equality per argument that is not None.
_build_filters(f, r) ==
    /\ f.racecourse = None \/ r.racecourse = f.racecourse[1]
    /\ f.distance = None \/ r.distance = f.distance[1]
    /\ f.track_condition = None \/ r.track_condition = f.track_condition[1]
    /\ f.num_runners = None \/ r.num_runners = f.num_runners[1]
    /\ f.track_direction = None \/ r.track_direction = f.track_direction[1]
    /\ f.weather = None \/ r.weather = f.weather[1]

\* Collation order of the race identifiers of the files (TEXT, byte order).
RaceIdRank(rid) ==
    CASE rid = "R1" -> 1 [] rid = "R2" -> 2 [] rid = "R3" -> 3 [] rid = "R4" -> 4
      [] rid = "R5" -> 5 [] rid = "R6" -> 6 [] rid = "R7" -> 7 [] rid = "R8" -> 8
      [] OTHER -> 9

\* The condition "AND e.finish_position <= 3" of the query.
FinishCondition(e) == e.finish_position <= 3

\* The rows the SELECT matches: entries joined to their race, the filters and
\* the finish position condition applied.
QueryMatches(f) ==
    {e \in race_entries :
        /\ FinishCondition(e)
        /\ \E r \in races : r.race_id = e.race_id /\ _build_filters(f, r)}

\* ORDER BY r.race_id, e.finish_position (rows equal on both in rowid order).
RowBefore(x, y) ==
    \/ RaceIdRank(x.race_id) < RaceIdRank(y.race_id)
    \/ /\ x.race_id = y.race_id
       /\ \/ x.finish_position < y.finish_position
          \/ x.finish_position = y.finish_position /\ x.id < y.id

RECURSIVE OrderBy(_)
OrderBy(S) ==
    IF S = {} THEN << >>
    ELSE LET first == CHOOSE x \in S : \A y \in S \ {x} : RowBefore(x, y)
         IN <<first>> \o OrderBy(S \ {first})

\* The five selected columns of one row.
SelectRow(e) ==
    [race_id |-> e.race_id, popularity |-> e.popularity,
     finish_position |-> e.finish_position, return_win |-> e.return_win,
     return_place |-> e.return_place]

\* conn.execute(query, params).fetchall()
FetchAll(f) ==
    LET ordered == OrderBy(QueryMatches(f))
    IN [i \in 1..Len(ordered) |-> SelectRow(ordered[i])]

\* float(x or 0.0) on a REAL column: NULL and 0 both give 0.
OrZero(x) == IF x = << >> THEN 0 ELSE x[1]

\* sorted(...) on a sequence of integers (ascending insertion sort).
RECURSIVE sorted(_)
sorted(seq) ==
    IF seq = << >> THEN << >>
    ELSE LET rest == sorted(Tail(seq))
             h == Head(seq)
             k == Cardinality({i \in 1..Len(rest) : rest[i] < h})
         IN SubSeq(rest, 1, k) \o <<h>> \o SubSeq(rest, k + 1, Len(rest))

RECURSIVE SumSeq(_)
SumSeq(seq) == IF seq = << >> THEN 0 ELSE Head(seq) + SumSeq(Tail(seq))

\* The win payout line 129-130 adds for one entry.
WinShare(item) ==
    IF item.finish_position = 1 THEN OrZero(item.return_win) ELSE 0

\* total_return of lines 126-130: each place payout, the win payout of an entry
\* with finish position 1.
BlendedReturn(entries) ==
    SumSeq([i \in 1..Len(entries) |->
                OrZero(entries[i].return_place) + WinShare(entries[i])])

Popularities(entries) == [i \in 1..Len(entries) |-> entries[i].popularity]

\* The guards of _flush_race (lines 118-122): three entries, all ranks positive.
FlushAccepts(entries) ==
    /\ Len(entries) = 3
    /\ \A i \in 1..Len(entries) : ~(entries[i].popularity <= 0)

EmptyStats == [count |-> 0, total_return |-> 0, total_popularity_sum |-> 0]

\* The statistics assigned instead of incremented.
AccumulateOverwrite(stats, combination, entries) ==
    [c \in DOMAIN stats \cup {combination} |->
        IF c = combination
        THEN [count |-> 1, total_return |-> BlendedReturn(entries),
              total_popularity_sum |-> SumSeq(Popularities(entries))]
        ELSE stats[c]]

\* combo_stats.setdefault(combination, {...}) followed by the three increments.
Accumulate(stats, combination, entries) ==
    LET old == IF combination \in DOMAIN stats THEN stats[combination] ELSE EmptyStats
        new == [count |-> old.count + 1,
                total_return |-> old.total_return + BlendedReturn(entries),
                total_popularity_sum |->
                    old.total_popularity_sum + SumSeq(Popularities(entries))]
    IN [c \in DOMAIN stats \cup {combination} |->
            IF c = combination THEN new ELSE stats[c]]

\* The race counted before its popularity ranks are tested.
_flush_race_counting_early(entries, stats, total) ==
    IF Len(entries) # 3
    THEN [combo_stats |-> stats, total_races |-> total]
    ELSE IF \E i \in 1..Len(entries) : entries[i].popularity <= 0
    THEN [combo_stats |-> stats, total_races |-> total + 1]
    ELSE [combo_stats |-> Accumulate(stats, sorted(Popularities(entries)), entries),
          total_races |-> total + 1]

\* _flush_race(entries) on the locals combo_stats and total_races.
_flush_race(entries, stats, total) ==
    IF ~FlushAccepts(entries)
    THEN [combo_stats |-> stats, total_races |-> total]
    ELSE [combo_stats |-> Accumulate(stats, sorted(Popularities(entries)), entries),
          total_races |-> total + 1]

\* itertools.combinations(seq, r), in its order of generation.
RECURSIVE combinations(_, _)
combinations(seq, r) ==
    IF r = 0 THEN << << >> >>
    ELSE IF seq = << >> THEN << >>
    ELSE LET with == combinations(Tail(seq), r - 1)
         IN [i \in 1..Len(with) |-> <<Head(seq)>> \o with[i]]
            \o combinations(Tail(seq), r)

\* sorted(set(horse_popularities))
RECURSIVE SetToSortedSeq(_)
SetToSortedSeq(S) ==
    IF S = {} THEN << >>
    ELSE LET m == CHOOSE x \in S : \A y \in S : x <= y
         IN <<m>> \o SetToSortedSeq(S \ {m})

Distinct(seq) == {seq[i] : i \in 1..Len(seq)}

\* candidate_combos of line 200.
CandidateCombos(horse_popularities) ==
    combinations(SetToSortedSeq(Distinct(horse_popularities)), 3)

\* stats["total_return"] / stats["count"]
AverageReturn(st) == Frac(st.total_return, st.count)

RECURSIVE SumAverages(_, _)
SumAverages(stats, keys) ==
    IF keys = {} THEN FracOfInt(0)
    ELSE LET k == CHOOSE x \in keys : TRUE
         IN FracAdd(AverageReturn(stats[k]), SumAverages(stats, keys \ {k}))

\* The pooled mean: all returns over all observations.
GlobalAvgReturnPooled(stats) ==
    IF DOMAIN stats # {}
    THEN LET keys == SetToSortedSeq({k[1] * 10000 + k[2] * 100 + k[3] : k \in DOMAIN stats})
             key(i) == <<keys[i] \div 10000, (keys[i] \div 100) % 100, keys[i] % 100>>
         IN Frac(SumSeq([i \in 1..Len(keys) |-> stats[key(i)].total_return]),
                 SumSeq([i \in 1..Len(keys) |-> stats[key(i)].count]))
    ELSE FracOfInt(100)

\* global_avg_return of lines 206-210: fmean of the per combination averages,
\* 100.0 when combo_stats is empty.
GlobalAvgReturn(stats) ==
    IF DOMAIN stats # {}
    THEN LET keys == {k \in DOMAIN stats : stats[k].count > 0}
         IN FracDiv(SumAverages(stats, keys), FracOfInt(Cardinality(keys)))
    ELSE FracOfInt(100)

\* The hit count without the lookup of the statistics.
HitCountUnread(stats, combo) == 0

\* hit_count of line 218.
HitCount(stats, combo) == IF combo \in DOMAIN stats THEN stats[combo].count ELSE 0

\* The smoothing with the pseudo count left out of the numerator.
SmoothedHitRateNoAlpha(hit_count, total, smoothing_denominator) ==
    Frac(hit_count, total + alpha * smoothing_denominator)

\* smoothed_hit_rate of line 219.
SmoothedHitRate(hit_count, total, smoothing_denominator) ==
    Frac(hit_count + alpha, total + alpha * smoothing_denominator)

\* avg_payout of lines 221-224.
AvgPayout(stats, combo, global_avg_return) ==
    IF combo \in DOMAIN stats /\ stats[combo].count > 0
    THEN AverageReturn(stats[combo])
    ELSE global_avg_return

\* ticket_value of line 204.
TicketValue(budget, num_tickets) == Frac(budget, num_tickets)

\* expected_return_per_ticket of lines 226-227.
ExpectedReturn(ticket_value, avg_payout, smoothed_hit_rate) ==
    FracMul(ticket_value,
            FracMul(FracDiv(avg_payout, FracOfInt(100)), smoothed_hit_rate))

\* One BetRecommendation of the loop of lines 216-237.
Recommend(stats, total, combo, n_combos, budget, num_tickets) ==
    LET rate == SmoothedHitRate(HitCount(stats, combo), total, n_combos)
        payout == AvgPayout(stats, combo, GlobalAvgReturn(stats))
        ticket == TicketValue(budget, num_tickets)
    IN [combination |-> combo, hit_rate |-> rate,
        estimated_average_payout |-> payout,
        expected_return_per_ticket |-> ExpectedReturn(ticket, payout, rate),
        suggested_bet_amount |-> ticket]

\* An ascending stable sort followed by a reversal: equal keys end reversed.
RECURSIVE SortAscending(_)
SortAscending(recs) ==
    IF recs = << >> THEN << >>
    ELSE LET n == Len(recs)
             front == SortAscending(SubSeq(recs, 1, n - 1))
             last == recs[n]
             k == Cardinality({i \in 1..Len(front) :
                      ~FracLess(last.expected_return_per_ticket,
                                front[i].expected_return_per_ticket)})
         IN SubSeq(front, 1, k) \o <<last>> \o SubSeq(front, k + 1, Len(front))

SortAscendingReversed(recs) ==
    LET up == SortAscending(recs)
    IN [i \in 1..Len(up) |-> up[Len(up) + 1 - i]]

\* list.sort(key=expected_return_per_ticket, reverse=True): a stable sort, equal
\* keys keep their order.  Each element is inserted behind the elements whose
\* key is not smaller.
RECURSIVE SortDescending(_)
SortDescending(recs) ==
    IF recs = << >> THEN << >>
    ELSE LET n == Len(recs)
             front == SortDescending(SubSeq(recs, 1, n - 1))
             last == recs[n]
             k == Cardinality({i \in 1..Len(front) :
                      ~FracLess(front[i].expected_return_per_ticket,
                                last.expected_return_per_ticket)})
         IN SubSeq(front, 1, k) \o <<last>> \o SubSeq(front, k + 1, Len(front))

Min(a, b) == IF a < b THEN a ELSE b

\* recommendations[: min(num_tickets, len(recommendations))]
TopTickets(recs, num_tickets) == SubSeq(recs, 1, Min(num_tickets, Len(recs)))

-----------------------------------------------------------------------------
(* The calls of recommend_bets explored                                    *)

NoFilter ==
    [racecourse |-> None, distance |-> None, track_condition |-> None,
     num_runners |-> None, track_direction |-> None, weather |-> None]

Filters ==
    {NoFilter,
     [NoFilter EXCEPT !.racecourse = Some("Tokyo")],
     [NoFilter EXCEPT !.racecourse = Some("Kyoto"), !.distance = Some(2000)],
     [NoFilter EXCEPT !.weather = Some("rain")]}

Budgets == {-600, 0, 600}

TicketCounts == {0, 1, 3, 12}

HorsePopularities ==
    {<<1, 2>>, <<1, 1, 2>>, <<1, 2, 3>>, <<4, 2, 1, 3>>, <<3, 1, 2, 3, 5, 4>>}

Calls ==
    [filter : Filters, horse_popularities : HorsePopularities,
     budget : Budgets, num_tickets : TicketCounts]

NoCall ==
    [filter |-> NoFilter, horse_popularities |-> << >>, budget |-> 0,
     num_tickets |-> 0]

NoOutcome == [op |-> "none", status |-> "ok", value |-> << >>]

\* main has printed nothing and has not ended.
NoOutput == [printed |-> << >>, raised |-> "", exit_status |-> << >>]

Raised(kind) == [op |-> "suggest", status |-> kind, value |-> << >>]

FreshFrame ==
    /\ queried = FALSE
    /\ rows = << >>
    /\ idx = 0
    /\ current_race = None
    /\ current_entries = << >>
    /\ combo_stats = << >>
    /\ total_races = 0
    /\ recommendations = << >>

Init ==
    /\ initialized = FALSE
    /\ races = {}
    /\ race_entries = {}
    /\ entry_seq = 0
    /\ ingests = 0
    /\ last_ingest = << >>
    /\ pc = "idle"
    /\ args = NoCall
    /\ outcome = NoOutcome
    /\ cli = NoOutput
    /\ FreshFrame

\* The argument checks with the budget compared by < instead of <=.
ArgumentErrorZeroBudget(a) ==
    CASE a.num_tickets <= 0 -> "InvalidTicketCount"
      [] a.budget < 0 -> "InvalidBudget"
      [] Len(a.horse_popularities) < 3 -> "InsufficientCandidates"
      [] OTHER -> ""

\* The argument checks of recommend_bets, lines 183-188, in their order.
ArgumentError(a) ==
    CASE a.num_tickets <= 0 -> "InvalidTicketCount"
      [] a.budget <= 0 -> "InvalidBudget"
      [] Len(a.horse_popularities) < 3 -> "InsufficientCandidates"
      [] OTHER -> ""

\* recommend_bets is called (cli "suggest") and checks its arguments.
Enter(a) ==
    /\ pc = "idle"
    /\ args' = a
    /\ IF ArgumentError(a) # ""
       THEN pc' = "done" /\ outcome' = Raised(ArgumentError(a))
       ELSE pc' = "fetch" /\ outcome' = NoOutcome
    /\ UNCHANGED <<store, ingests, last_ingest, cli, queried, rows, idx, current_race,
                   current_entries, combo_stats, total_races, recommendations>>

\* _fetch_trifecta_statistics, lines 77-113: the query runs; without the tables
\* sqlite3 raises OperationalError, without rows the function raises.
Fetch ==
    /\ pc = "fetch"
    /\ queried' = TRUE
    /\ IF ~initialized
       THEN pc' = "done" /\ outcome' = Raised("OperationalError") /\ rows' = rows
       ELSE LET fetched == FetchAll(args.filter)
            IN /\ rows' = fetched
               /\ IF fetched = << >>
                  THEN pc' = "done" /\ outcome' = Raised("NoMatchingData")
                  ELSE pc' = "loop" /\ outcome' = outcome
    /\ UNCHANGED <<store, ingests, last_ingest, cli, args, idx, current_race,
                   current_entries, combo_stats, total_races, recommendations>>

\* One iteration of the loop "for row in rows", lines 140-154.
LoopStep ==
    /\ pc = "loop"
    /\ idx < Len(rows)
    /\ LET row == rows[idx + 1]
           item == [popularity |-> row.popularity,
                    finish_position |-> row.finish_position,
                    return_win |-> row.return_win,
                    return_place |-> row.return_place]
           changes == Some(row.race_id) # current_race
           flushed == IF changes /\ current_race # None
                      THEN _flush_race(current_entries, combo_stats, total_races)
                      ELSE [combo_stats |-> combo_stats, total_races |-> total_races]
       IN /\ combo_stats' = flushed.combo_stats
          /\ total_races' = flushed.total_races
          /\ current_race' = Some(row.race_id)
          /\ current_entries' = IF changes THEN <<item>>
                                ELSE Append(current_entries, item)
    /\ idx' = idx + 1
    /\ UNCHANGED <<store, ingests, last_ingest, cli, pc, args, queried, rows,
                   recommendations, outcome>>

\* The end of the loop without the flush of the last race.
LoopEndNoFlush ==
    /\ pc = "loop"
    /\ idx = Len(rows)
    /\ IF total_races = 0
       THEN pc' = "done" /\ outcome' = Raised("IncompleteHistoricalData")
       ELSE pc' = "rank" /\ outcome' = outcome
    /\ UNCHANGED <<store, ingests, last_ingest, cli, args, queried, rows, idx,
                   current_race, current_entries, combo_stats, total_races,
                   recommendations>>

\* After the loop, lines 156-165: the last race is flushed and the function
\* raises when no race was counted.
LoopEnd ==
    /\ pc = "loop"
    /\ idx = Len(rows)
    /\ LET flushed == IF current_race # None
                      THEN _flush_race(current_entries, combo_stats, total_races)
                      ELSE [combo_stats |-> combo_stats, total_races |-> total_races]
       IN /\ combo_stats' = flushed.combo_stats
          /\ total_races' = flushed.total_races
          /\ IF flushed.total_races = 0
             THEN pc' = "done" /\ outcome' = Raised("IncompleteHistoricalData")
             ELSE pc' = "rank" /\ outcome' = outcome
    /\ UNCHANGED <<store, ingests, last_ingest, cli, args, queried, rows, idx,
                   current_race, current_entries, recommendations>>

\* The list recommendations of lines 215-239, sorted.
Recommendations(stats, total, a) ==
    LET candidate_combos == CandidateCombos(a.horse_popularities)
    IN SortDescending(
           [i \in 1..Len(candidate_combos) |->
               Recommend(stats, total, candidate_combos[i], Len(candidate_combos),
                         a.budget, a.num_tickets)])

\* recommend_bets after the statistics returned, lines 200-241.
Rank ==
    /\ pc = "rank"
    /\ IF CandidateCombos(args.horse_popularities) = << >>
       THEN /\ recommendations' = recommendations
            /\ outcome' = Raised("InsufficientCandidates")
       ELSE /\ recommendations' = Recommendations(combo_stats, total_races, args)
            /\ outcome' = [op |-> "suggest", status |-> "ok",
                           value |-> TopTickets(recommendations', args.num_tickets)]
    /\ pc' = "done"
    /\ UNCHANGED <<store, ingests, last_ingest, cli, args, queried, rows, idx,
                   current_race, current_entries, combo_stats, total_races>>

\* The attributes an instance of BetRecommendation has: the five fields of the
\* dataclass and the property combination_label.
BetRecommendationAttributes ==
    {"combination", "hit_rate", "estimated_average_payout",
     "expected_return_per_ticket", "suggested_bet_amount", "combination_label"}

\* BetRecommendation.combination_label: "-".join(str(p) for p in combination).
combination_label(rec) ==
    ToString(rec.combination[1]) \o "-" \o ToString(rec.combination[2])
        \o "-" \o ToString(rec.combination[3])

\* rec.<name>: the value of the attribute, or AttributeError (found is FALSE).
getattr(rec, name) ==
    IF name \notin BetRecommendationAttributes
    THEN [found |-> FALSE, value |-> << >>]
    ELSE [found |-> TRUE,
          value |-> CASE name = "combination" -> rec.combination
                      [] name = "hit_rate" -> rec.hit_rate
                      [] name = "estimated_average_payout" -> rec.estimated_average_payout
                      [] name = "expected_return_per_ticket" -> rec.expected_return_per_ticket
                      [] name = "suggested_bet_amount" -> rec.suggested_bet_amount
                      [] OTHER -> combination_label(rec)]

\* format(x, ".0f"): the nearest integer, a half to the even neighbour.
RoundHalfEven(x) ==
    LET q == x[1] \div x[2]
        r == x[1] % x[2]
    IN IF 2 * r < x[2] THEN q
       ELSE IF 2 * r > x[2] THEN q + 1
       ELSE IF q % 2 = 0 THEN q ELSE q + 1

\* The attributes the f-string of cli.py lines 79-80 reads, in its order.
PrintedAttributes ==
    <<"horse_label", "popularity_rank", "suggested_bet_amount",
      "expected_return_per_ticket">>

\* The line print(...) writes for one recommendation, lines 78-81.
FormatLine(rec) ==
    LET label == getattr(rec, PrintedAttributes[1])
        rank == getattr(rec, PrintedAttributes[2])
        bet == getattr(rec, PrintedAttributes[3])
        expected == getattr(rec, PrintedAttributes[4])
    IN IF label.found /\ rank.found /\ bet.found /\ expected.found
       THEN [ok |-> TRUE,
             line |-> << [label |-> label.value, popularity |-> rank.value,
                          bet |-> RoundHalfEven(bet.value),
                          expected |-> RoundHalfEven(expected.value)] >>]
       ELSE [ok |-> FALSE, line |-> << >>]

\* The loop "for rec in recommendations: print(...)" and "return 0", lines 77-82:
\* the lines printed before the first AttributeError, exit status 0 without one.
RECURSIVE PrintAll(_, _)
PrintAll(recs, printed) ==
    IF recs = << >>
    THEN [printed |-> printed, raised |-> "", exit_status |-> <<0>>]
    ELSE LET out == FormatLine(Head(recs))
         IN IF out.ok THEN PrintAll(Tail(recs), printed \o out.line)
            ELSE [printed |-> printed, raised |-> "AttributeError",
                  exit_status |-> <<1>>]

\* main for the command "suggest", lines 64-82, once recommend_bets ended: an
\* exception of recommend_bets leaves main, a returned list is printed.
MainSuggest ==
    /\ pc = "done"
    /\ pc' = "exited"
    /\ cli' = IF outcome.status = "ok" THEN PrintAll(outcome.value, << >>)
              ELSE [printed |-> << >>, raised |-> outcome.status,
                    exit_status |-> <<1>>]
    /\ UNCHANGED <<store, ingests, last_ingest, frame, outcome>>

-----------------------------------------------------------------------------
(* The single-selection variant of the statistics and of the ranker        *)

\* The entries that qualify: joined to their race, the filters applied.
SingleMatches(f) ==
    {e \in race_entries :
        \E r \in races : r.race_id = e.race_id /\ _build_filters(f, r)}

\* The popularity ranks that have a statistic.
KnownRanks(f) == {e.popularity : e \in SingleMatches(f)}

RECURSIVE SumReturnWin(_)
SumReturnWin(S) ==
    IF S = {} THEN 0
    ELSE LET e == CHOOSE x \in S : TRUE
         IN OrZero(e.return_win) + SumReturnWin(S \ {e})

\* The statistic of one popularity rank: bet count, distinct-race count, win
\* rate and average win payout.
PopularityStatistic(f, rank) ==
    LET bets == {e \in SingleMatches(f) : e.popularity = rank}
        wins == {e \in bets : e.finish_position = 1}
    IN [bet_count |-> Cardinality(bets),
        race_count |-> Cardinality({e.race_id : e \in bets}),
        win_rate |-> Frac(Cardinality(wins), Cardinality(bets)),
        average_win_payout |-> Frac(SumReturnWin(bets), Cardinality(bets))]

\* Expected return per 100 currency units: average win payout minus 100.
ExpectedReturnPer100(stat) == FracAdd(stat.average_win_payout, FracOfInt(-100))

RECURSIVE SumExpectedReturnPer100(_, _)
SumExpectedReturnPer100(f, ranks) ==
    IF ranks = {} THEN FracOfInt(0)
    ELSE LET r == CHOOSE x \in ranks : TRUE
         IN FracAdd(ExpectedReturnPer100(PopularityStatistic(f, r)),
                    SumExpectedReturnPer100(f, ranks \ {r}))

\* A rank without statistic is scored with no bonus at all.
FallbackBonusNone(f) == FracOfInt(0)

\* The fallback bonus: the mean expected return per 100 across all known ranks.
FallbackBonus(f) ==
    FracDiv(SumExpectedReturnPer100(f, KnownRanks(f)),
            FracOfInt(Cardinality(KnownRanks(f))))

\* The selection of the runner at position i of the supplied ranks.
SingleSelection(a, i) ==
    LET rank == a.horse_popularities[i]
        known == rank \in KnownRanks(a.filter)
        bonus == IF known
                 THEN ExpectedReturnPer100(PopularityStatistic(a.filter, rank))
                 ELSE FallbackBonus(a.filter)
        payout == IF known
                  THEN PopularityStatistic(a.filter, rank).average_win_payout
                  ELSE FracAdd(FracOfInt(100), bonus)
        ticket == Frac(a.budget, a.num_tickets)
    IN [horse_label |-> i, popularity_rank |-> rank, expected_bonus |-> bonus,
        estimated_average_payout |-> payout,
        expected_return_per_ticket |-> FracMul(ticket, FracDiv(payout, FracOfInt(100))),
        suggested_bet_amount |-> ticket]

\* The selections of all supplied ranks, in their original order.
SingleSelections(a) ==
    [i \in 1..Len(a.horse_popularities) |-> SingleSelection(a, i)]

\* A stable sort, descending by expected bonus.
RECURSIVE SortByBonus(_)
SortByBonus(recs) ==
    IF recs = << >> THEN << >>
    ELSE LET n == Len(recs)
             front == SortByBonus(SubSeq(recs, 1, n - 1))
             last == recs[n]
             k == Cardinality({i \in 1..Len(front) :
                      ~FracLess(front[i].expected_bonus, last.expected_bonus)})
         IN SubSeq(front, 1, k) \o <<last>> \o SubSeq(front, k + 1, Len(front))

\* The failures of the single-selection ranker and of its statistics engine.
SingleError(a) ==
    CASE a.num_tickets <= 0 -> "InvalidTicketCount"
      [] a.budget <= 0 -> "InvalidBudget"
      [] Len(a.horse_popularities) < a.num_tickets -> "InsufficientCandidates"
      [] ~initialized -> "OperationalError"
      [] SingleMatches(a.filter) = {} -> "NoMatchingData"
      [] OTHER -> ""

\* A request for single-selection recommendations, whole: the checks, the
\* statistics, one selection per supplied rank, the sort and the cut.
RecommendSingle(a) ==
    /\ pc = "idle"
    /\ pc' = "single_done"
    /\ args' = a
    /\ IF SingleError(a) # ""
       THEN /\ outcome' = Raised(SingleError(a))
            /\ recommendations' = << >>
       ELSE /\ recommendations' = SingleSelections(a)
            /\ outcome' = [op |-> "suggest", status |-> "ok",
                           value |-> SubSeq(SortByBonus(SingleSelections(a)), 1,
                                            a.num_tickets)]
    /\ UNCHANGED <<store, ingests, last_ingest, cli, queried, rows, idx,
                   current_race, current_entries, combo_stats, total_races>>

\* The call has returned or raised; its locals are gone.
Return ==
    /\ pc \in {"done", "exited", "single_done"}
    /\ pc' = "idle"
    /\ args' = NoCall
    /\ outcome' = NoOutcome
    /\ cli' = NoOutput
    /\ queried' = FALSE
    /\ rows' = << >>
    /\ idx' = 0
    /\ current_race' = None
    /\ current_entries' = << >>
    /\ combo_stats' = << >>
    /\ total_races' = 0
    /\ recommendations' = << >>
    /\ UNCHANGED <<store, ingests, last_ingest>>

Next ==
    \/ \E file \in Files : Ingest(file)
    \/ InitDb
    \/ \E a \in Calls : Enter(a)
    \/ Fetch
    \/ LoopStep
    \/ LoopEnd
    \/ Rank
    \/ MainSuggest
    \/ Return

Spec == Init /\ [][Next]_vars

\* The program with the single-selection variant of the recommendation request.
NextSingle ==
    \/ \E file \in Files : Ingest(file)
    \/ InitDb
    \/ \E a \in Calls : RecommendSingle(a)
    \/ Return

SpecSingle == Init /\ [][NextSingle]_vars

-----------------------------------------------------------------------------
(* Properties                                                              *)

\* The call returned its list.
Returned == pc = "done" /\ outcome.status = "ok"

FracLeq(x, y) == x[1] * y[2] <= y[1] * x[2]

\* The observation count combo_stats records for a combination, 0 if it has none.
Observed(combo) ==
    IF combo \in DOMAIN combo_stats THEN combo_stats[combo].count ELSE 0

\* The smoothed hit rate of recommendation i is the quotient
\* (observed_count + 1) / (total_qualifying_races + number of combinations).
RateIsSmoothed(i) ==
    LET rec == recommendations[i]
    IN rec.hit_rate[1] * (total_races + Len(recommendations))
           = (Observed(rec.combination) + 1) * rec.hit_rate[2]

\* C1 as stated: every candidate combination of a call that ranked its
\* candidates has the smoothed hit rate (observed + 1) / (total + combinations),
\* strictly greater than 0 and strictly less than 1.
C1_RateStrictlyInside ==
    \A i \in 1..Len(recommendations) :
        /\ RateIsSmoothed(i)
        /\ FracLess(<<0, 1>>, recommendations[i].hit_rate)
        /\ FracLess(recommendations[i].hit_rate, <<1, 1>>)

\* C1 amended: the smoothed hit rate of every candidate combination is the
\* quotient (observed + 1) / (total + combinations), strictly greater than 0 and
\* at most 1; it equals 1 only when the candidate set yields a single
\* combination and every qualifying race was observed with that combination.
C1_RateBounded ==
    \A i \in 1..Len(recommendations) :
        /\ RateIsSmoothed(i)
        /\ FracLess(<<0, 1>>, recommendations[i].hit_rate)
        /\ FracLeq(recommendations[i].hit_rate, <<1, 1>>)
        /\ recommendations[i].hit_rate = <<1, 1>>
              => /\ Len(recommendations) = 1
                 /\ Observed(recommendations[i].combination) = total_races

\* A call ranked a single candidate combination that was never observed, with
\* qualifying races in the history.
C1_Witness ==
    /\ Returned
    /\ total_races > 0
    /\ Len(recommendations) = 1
    /\ Observed(recommendations[1].combination) = 0

\* The race rows the filters of the running call select.
FilteredRaces == {r \in races : _build_filters(args.filter, r)}

\* The entries of a race with finish position 1, 2 or 3.
TopThree(rid) ==
    {e \in race_entries : e.race_id = rid /\ e.finish_position \in {1, 2, 3}}

\* A race with exactly three entries of finish position 1, 2 or 3, all of them
\* with a strictly positive popularity rank.
HasCompleteTrio(rid) ==
    /\ Cardinality(TopThree(rid)) = 3
    /\ \A e \in TopThree(rid) : e.popularity > 0

TrioRaces == {r.race_id : r \in {x \in FilteredRaces : HasCompleteTrio(x.race_id)}}

\* The ascending triple of the popularity ranks of the three placed entries.
TrioKey(rid) == sorted(Popularities(OrderBy(TopThree(rid))))

\* The grouping pass of the running call has ended.
GroupingEnded ==
    \/ pc = "rank"
    \/ /\ pc = "done"
       /\ queried
       /\ outcome.status \in {"ok", "InsufficientCandidates", "IncompleteHistoricalData"}

\* C2 as stated: when the grouping pass has ended, the races counted are exactly
\* the filtered races with exactly three entries of finish position 1, 2 or 3
\* and positive ranks, each under the ascending triple of its ranks.
C2_ContributesIffTopThree ==
    GroupingEnded =>
        /\ total_races = Cardinality(TrioRaces)
        /\ DOMAIN combo_stats = {TrioKey(rid) : rid \in TrioRaces}
        /\ \A k \in DOMAIN combo_stats :
              combo_stats[k].count = Cardinality({rid \in TrioRaces : TrioKey(rid) = k})

\* A payout, a missing one counting as 0.
Payout(x) == IF x = << >> THEN 0 ELSE x[1]

\* The positions in rows of the entries of race rid.
RowsOfRace(rid) == SetToSortedSeq({i \in 1..Len(rows) : rows[i].race_id = rid})

\* Place payouts of the entries of a race plus the win payout of the entries
\* that finished first.
PlacePlusWinnersWin(rid) ==
    LET at == RowsOfRace(rid)
    IN SumSeq([j \in 1..Len(at) |-> Payout(rows[at[j]].return_place)])
       + SumSeq([j \in 1..Len(at) |->
                    IF rows[at[j]].finish_position = 1
                    THEN Payout(rows[at[j]].return_win) ELSE 0])

RankSum(rid) ==
    LET at == RowsOfRace(rid)
    IN SumSeq([j \in 1..Len(at) |-> rows[at[j]].popularity])

RankTriple(rid) ==
    LET at == RowsOfRace(rid)
    IN sorted([j \in 1..Len(at) |-> rows[at[j]].popularity])

StatsOrZero(stats, k) ==
    IF k \in DOMAIN stats THEN stats[k]
    ELSE [count |-> 0, total_return |-> 0, total_popularity_sum |-> 0]

\* The step counts the race last read into its combination.
CountsRace ==
    pc = "loop" /\ current_race # None /\ total_races' # total_races

\* C3: a step that counts a race adds 1 to the count of its combination, the
\* place payouts of its entries plus the win payout of its first placed entry
\* to the cumulative return, the sum of its ranks to the cumulative popularity
\* sum, and changes the statistics of no other combination.
C3_FlushAccumulates ==
    [][CountsRace =>
        LET rid == current_race[1]
            key == RankTriple(rid)
            old == StatsOrZero(combo_stats, key)
        IN /\ total_races' = total_races + 1
           /\ DOMAIN combo_stats' = DOMAIN combo_stats \cup {key}
           /\ combo_stats'[key].count = old.count + 1
           /\ combo_stats'[key].total_return
                  = old.total_return + PlacePlusWinnersWin(rid)
           /\ combo_stats'[key].total_popularity_sum
                  = old.total_popularity_sum + RankSum(rid)
           /\ \A k \in DOMAIN combo_stats \ {key} : combo_stats'[k] = combo_stats[k]
    ]_vars

\* Two races were counted under 1-2-4, one of them a dead heat for first with a
\* missing place payout: 200 + 3 * 60 and 120 + 130 + 40 + 40 + 0.
C3_Witness ==
    /\ <<1, 2, 4>> \in DOMAIN combo_stats
    /\ combo_stats[<<1, 2, 4>>]
           = [count |-> 2, total_return |-> 710, total_popularity_sum |-> 14]

\* The entries the filtered query of the running call returns.
ReturnedEntries ==
    {e \in race_entries :
        /\ e.finish_position <= 3
        /\ \E r \in FilteredRaces : r.race_id = e.race_id}

\* Some race has exactly three returned entries, all with a positive rank.
SomeCompleteRace ==
    \E r \in FilteredRaces :
        LET es == {e \in ReturnedEntries : e.race_id = r.race_id}
        IN Cardinality(es) = 3 /\ \A e \in es : e.popularity > 0

\* The statistics engine of the running call has ended, its query answered.
EngineEnded == initialized /\ (pc = "rank" \/ (pc = "done" /\ queried))

\* C4: the engine fails with NoMatchingData exactly when its query returns no
\* entry, with IncompleteHistoricalData exactly when it returns entries of
\* which no race has three with positive ranks; a failure hands nothing to the
\* caller, and a return has total_races > 0.
C4_EngineFailures ==
    EngineEnded =>
        /\ outcome.status = "NoMatchingData" <=> ReturnedEntries = {}
        /\ outcome.status = "IncompleteHistoricalData"
              <=> (ReturnedEntries # {} /\ ~SomeCompleteRace)
        /\ outcome.status \in {"NoMatchingData", "IncompleteHistoricalData"}
              => (outcome.value = << >> /\ recommendations = << >>)
        /\ outcome.status \notin {"NoMatchingData", "IncompleteHistoricalData"}
              => total_races > 0

\* The engine raised IncompleteHistoricalData on a query that returned entries.
C4_Witness ==
    /\ pc = "done"
    /\ outcome.status = "IncompleteHistoricalData"
    /\ rows # << >>

\* C5 as stated: a call with budget <= 0 ends with InvalidBudget, a call with
\* num_tickets <= 0 ends with InvalidTicketCount, and neither has queried.
C5_BothKinds ==
    pc # "idle" =>
        /\ args.budget <= 0 => (outcome.status = "InvalidBudget" /\ ~queried)
        /\ args.num_tickets <= 0
              => (outcome.status = "InvalidTicketCount" /\ ~queried)

\* C5 amended: a call with num_tickets <= 0 fails with InvalidTicketCount, a
\* call with budget <= 0 and num_tickets > 0 fails with InvalidBudget, and in
\* both cases the call ends without having issued its query.
C5_InvalidBeforeQuery ==
    pc # "idle" =>
        /\ args.num_tickets <= 0
              => (/\ pc \in {"done", "exited"}
                  /\ outcome.status = "InvalidTicketCount" /\ ~queried)
        /\ (args.budget <= 0 /\ args.num_tickets > 0)
              => (/\ pc \in {"done", "exited"}
                  /\ outcome.status = "InvalidBudget" /\ ~queried)

\* A call with budget 0 and a positive ticket count ended on a store with rows.
C5_Witness ==
    /\ pc = "done"
    /\ args.budget = 0
    /\ args.num_tickets > 0
    /\ race_entries # {}
    /\ outcome.status = "InvalidBudget"

\* C6 as stated: on a store with its tables, a call with a positive budget and
\* ticket count and fewer than 3 distinct candidate ranks ends with
\* InsufficientCandidates.
C6_FewDistinctRejected ==
    (/\ pc = "done"
     /\ initialized
     /\ args.budget > 0
     /\ args.num_tickets > 0
     /\ Cardinality(Distinct(args.horse_popularities)) < 3)
        => outcome.status = "InsufficientCandidates"

\* The 3-combinations of the distinct candidate ranks, each ascending.
TrioCandidates ==
    LET D == Distinct(args.horse_popularities)
    IN {t \in D \X D \X D : t[1] < t[2] /\ t[2] < t[3]}

LexLess(x, y) ==
    \/ x[1] < y[1]
    \/ x[1] = y[1] /\ x[2] < y[2]
    \/ x[1] = y[1] /\ x[2] = y[2] /\ x[3] < y[3]

\* The expected return per ticket computed for a candidate combination.
ReturnOf(combo) ==
    LET i == CHOOSE j \in 1..Len(recommendations) :
                 recommendations[j].combination = combo
    IN recommendations[i].expected_return_per_ticket

\* C7: the returned list has min(num_tickets, number of 3-combinations of the
\* distinct ranks) elements, all of them distinct candidate combinations, in
\* non-increasing order of expected return, equal returns in lexicographic
\* order of the combination, and no omitted candidate has a larger return than
\* a returned one.
C7_TopSelection ==
    Returned =>
        LET res == outcome.value
            n == Cardinality(TrioCandidates)
            chosen == {res[i].combination : i \in 1..Len(res)}
        IN /\ Len(res) = IF args.num_tickets < n THEN args.num_tickets ELSE n
           /\ Len(recommendations) = n
           /\ {recommendations[i].combination : i \in 1..n} = TrioCandidates
           /\ \A i \in 1..Len(res) : \E j \in 1..n : recommendations[j] = res[i]
           /\ \A i, j \in 1..Len(res) :
                 i < j =>
                    /\ res[i].combination # res[j].combination
                    /\ ~FracLess(res[i].expected_return_per_ticket,
                                 res[j].expected_return_per_ticket)
                    /\ res[i].expected_return_per_ticket
                           = res[j].expected_return_per_ticket
                         => LexLess(res[i].combination, res[j].combination)
           /\ \A c \in TrioCandidates \ chosen :
                 \A i \in 1..Len(res) :
                    ~FracLess(res[i].expected_return_per_ticket, ReturnOf(c))

\* Three of ten candidate combinations were returned, two of them with equal
\* expected return and two with different ones.
C7_Witness ==
    /\ Returned
    /\ Cardinality(TrioCandidates) = 10
    /\ Len(outcome.value) = 3
    /\ outcome.value[1].expected_return_per_ticket
           # outcome.value[2].expected_return_per_ticket
    /\ outcome.value[2].expected_return_per_ticket
           = outcome.value[3].expected_return_per_ticket

RECURSIVE SumOfMeans(_)
SumOfMeans(keys) ==
    IF keys = {} THEN <<0, 1>>
    ELSE LET k == CHOOSE x \in keys : TRUE
         IN FracAdd(Frac(combo_stats[k].total_return, combo_stats[k].count),
                    SumOfMeans(keys \ {k}))

\* The unweighted mean of the mean returns of all observed combinations, 100
\* when there is none.
MeanOfMeans ==
    IF DOMAIN combo_stats = {} THEN <<100, 1>>
    ELSE FracDiv(SumOfMeans(DOMAIN combo_stats),
                 <<Cardinality(DOMAIN combo_stats), 1>>)

\* The payout P of a combination: its own mean return if observed, else the
\* mean of means.
PayoutOf(combo) ==
    IF Observed(combo) >= 1
    THEN Frac(combo_stats[combo].total_return, combo_stats[combo].count)
    ELSE MeanOfMeans

\* C8: the expected return per ticket of every candidate combination is
\* (budget / num_tickets) * (P / 100) * smoothed hit rate.
C8_ExpectedReturnFormula ==
    \A i \in 1..Len(recommendations) :
        LET rec == recommendations[i]
            rate == Frac(Observed(rec.combination) + 1,
                         total_races + Len(recommendations))
        IN rec.expected_return_per_ticket
              = FracMul(FracMul(Frac(args.budget, args.num_tickets),
                                FracDiv(PayoutOf(rec.combination), <<100, 1>>)),
                        rate)

\* A ranking with an observed candidate, an unobserved candidate, an observed
\* combination that is no candidate, and two combinations observed a different
\* number of times.
C8_Witness ==
    /\ Returned
    /\ \E k \in DOMAIN combo_stats : k \notin TrioCandidates
    /\ \E c \in TrioCandidates : c \in DOMAIN combo_stats
    /\ \E c \in TrioCandidates : c \notin DOMAIN combo_stats
    /\ \E k1, k2 \in DOMAIN combo_stats :
          combo_stats[k1].count # combo_stats[k2].count

\* C9: when a single combination was observed, it is a candidate and its mean
\* return is positive, it is returned first and every other candidate has a
\* strictly smaller expected return.
C9_OnlyObservedRanksFirst ==
    (/\ Returned
     /\ Cardinality(DOMAIN combo_stats) = 1
     /\ \A k \in DOMAIN combo_stats :
           k \in TrioCandidates /\ combo_stats[k].total_return > 0)
        => /\ outcome.value[1].combination \in DOMAIN combo_stats
           /\ \A c \in TrioCandidates \ DOMAIN combo_stats :
                 FracLess(ReturnOf(c), outcome.value[1].expected_return_per_ticket)

\* Three races 1-2-3 with returns 250, 300 and 260, candidates {1,2,3,4}, one
\* ticket: 1-2-3 is the recommendation.
C9_Witness ==
    /\ Returned
    /\ combo_stats = (<<1, 2, 3>> :>
           [count |-> 3, total_return |-> 810, total_popularity_sum |-> 18])
    /\ Distinct(args.horse_popularities) = {1, 2, 3, 4}
    /\ args.num_tickets = 1
    /\ Len(outcome.value) = 1
    /\ outcome.value[1].combination = <<1, 2, 3>>

\* A row of race_entries without its id.
Attributes(e) ==
    [race_id |-> e.race_id, horse_number |-> e.horse_number,
     horse_name |-> e.horse_name, popularity |-> e.popularity,
     finish_position |-> e.finish_position, odds_win |-> e.odds_win,
     odds_place |-> e.odds_place, return_win |-> e.return_win,
     return_place |-> e.return_place]

UniqueKeys ==
    /\ \A r1, r2 \in races : r1.race_id = r2.race_id => r1 = r2
    /\ \A e1, e2 \in race_entries :
          (e1.race_id = e2.race_id /\ e1.horse_number = e2.horse_number) => e1 = e2

\* The step is a successful ingest of the file the last successful ingest read.
IngestsSameFileAgain ==
    /\ ingests' = ingests + 1
    /\ outcome'.status = "ok"
    /\ last_ingest # << >>
    /\ last_ingest'[1].path = last_ingest[1].path

\* C10: the store never holds two race rows with one race_id nor two entry
\* rows with one (race_id, horse_number), and a second ingest of the same file
\* reports the same counts as the first and leaves the same rows.
C10_IngestIdempotent ==
    /\ []UniqueKeys
    /\ [][IngestsSameFileAgain =>
             /\ last_ingest'[1].report = last_ingest[1].report
             /\ races' = races
             /\ {Attributes(e) : e \in race_entries'}
                    = {Attributes(e) : e \in race_entries}
             /\ Cardinality(race_entries') = Cardinality(race_entries)
          ]_vars

\* The file that names one runner twice was ingested two times in a row: it
\* reports 1 race and 4 entries, the store holds 3 entry rows.
C10_Witness ==
    /\ last_ingest # << >>
    /\ last_ingest[1].path = "repeated.csv"
    /\ last_ingest[1].times = 2
    /\ last_ingest[1].report = <<1, 4>>
    /\ Cardinality(race_entries) = 3

\* C11: when recommend_bets returned a list, main prints one line for every
\* recommendation of it, in order, with its stake and expected return, ends
\* with exit status 0, and reads only attributes BetRecommendation has.
C11_SuggestRendersAll ==
    (pc = "exited" /\ outcome.status = "ok") =>
        /\ cli.exit_status = <<0>>
        /\ cli.raised = ""
        /\ Len(cli.printed) = Len(outcome.value)
        /\ \A i \in 1..Len(cli.printed) :
              /\ cli.printed[i].bet
                     = RoundHalfEven(outcome.value[i].suggested_bet_amount)
              /\ cli.printed[i].expected
                     = RoundHalfEven(outcome.value[i].expected_return_per_ticket)
        /\ \A i \in 1..Len(PrintedAttributes) :
              PrintedAttributes[i] \in BetRecommendationAttributes

RECURSIVE SumOfCounts(_)
SumOfCounts(keys) ==
    IF keys = {} THEN 0
    ELSE LET k == CHOOSE x \in keys : TRUE
         IN combo_stats[k].count + SumOfCounts(keys \ {k})

\* C13: at every step of the grouping pass and after it, total_races is the sum
\* of the observation counts of combo_stats; every count is at least 1 and at
\* most total_races; and combo_stats is not empty once the engine has returned,
\* so the ranking never takes the default 100.0.
C13_TotalIsSumOfCounts ==
    /\ total_races = SumOfCounts(DOMAIN combo_stats)
    /\ \A k \in DOMAIN combo_stats :
          combo_stats[k].count >= 1 /\ combo_stats[k].count <= total_races
    /\ (pc = "rank" \/ recommendations # << >>) => DOMAIN combo_stats # {}

\* The grouping loop is between two rows, with three races counted under two
\* combinations.
C13_Witness ==
    /\ pc = "loop"
    /\ idx < Len(rows)
    /\ total_races = 3
    /\ Cardinality(DOMAIN combo_stats) = 2

\* The step is an ingest that failed with a validation or missing file failure.
IngestFails ==
    /\ ingests' = ingests + 1
    /\ outcome'.status \in {"DataValidationError", "FileNotFoundError"}

\* C14: an ingest that fails with a validation failure or a missing file
\* failure leaves the race rows and the entry rows of the store as they were.
C14_FailedIngestWritesNothing ==
    [][IngestFails => (races' = races /\ race_entries' = race_entries)]_vars

\* An ingest failed its validation on a store that holds rows of an earlier
\* ingest.
C14_Witness ==
    /\ outcome.op = "ingest"
    /\ outcome.status = "DataValidationError"
    /\ last_ingest # << >>
    /\ race_entries # {}

\* The single-selection request ended.
SingleEnded == pc = "single_done"

\* The arguments pass the checks of the single-selection ranker and entries
\* qualify under the filters.
SingleServed ==
    /\ args.num_tickets > 0
    /\ args.budget > 0
    /\ Len(args.horse_popularities) >= args.num_tickets
    /\ \E e \in race_entries : \E r \in races :
           r.race_id = e.race_id /\ _build_filters(args.filter, r)

\* The ranks whose entries qualify under the filters of the request.
RanksWithHistory ==
    {e.popularity : e \in {x \in race_entries : \E r \in races :
                               r.race_id = x.race_id /\ _build_filters(args.filter, r)}}

\* The average win payout of one rank with history.
MeanWinPayout(rank) ==
    LET bets == {x \in race_entries :
                    /\ x.popularity = rank
                    /\ \E r \in races :
                           r.race_id = x.race_id /\ _build_filters(args.filter, r)}
    IN Frac(SumReturnWin(bets), Cardinality(bets))

RECURSIVE SumMeanWinPayout(_)
SumMeanWinPayout(ranks) ==
    IF ranks = {} THEN FracOfInt(0)
    ELSE LET r == CHOOSE x \in ranks : TRUE
         IN FracAdd(MeanWinPayout(r), SumMeanWinPayout(ranks \ {r}))

\* The mean over the ranks with history of (average win payout - 100), computed
\* as the mean of the averages less 100.
MeanReturnPer100 ==
    FracAdd(FracDiv(SumMeanWinPayout(RanksWithHistory),
                    FracOfInt(Cardinality(RanksWithHistory))),
            FracOfInt(-100))

\* C12: in single-selection mode a supplied rank without statistic does not
\* make the request fail: the request returns num_tickets selections, taken by
\* descending expected bonus, and every supplied rank without statistic has the
\* mean expected return per 100 of the known ranks as its expected bonus and
\* 100 plus that bonus as its average payout.
C12_UnknownRankFallsBack ==
    (SingleEnded /\ SingleServed
        /\ \E i \in 1..Len(args.horse_popularities) :
               args.horse_popularities[i] \notin RanksWithHistory) =>
        /\ outcome.status = "ok"
        /\ Len(outcome.value) = args.num_tickets
        /\ Len(recommendations) = Len(args.horse_popularities)
        /\ \A i \in 1..Len(recommendations) :
               /\ recommendations[i].popularity_rank = args.horse_popularities[i]
               /\ args.horse_popularities[i] \notin RanksWithHistory =>
                      /\ recommendations[i].expected_bonus = MeanReturnPer100
                      /\ recommendations[i].estimated_average_payout =
                             FracAdd(FracOfInt(100), MeanReturnPer100)
        /\ \A j \in 1..Len(outcome.value) :
               /\ \E i \in 1..Len(recommendations) : outcome.value[j] = recommendations[i]
               /\ \A i \in 1..Len(recommendations) :
                      FracLess(outcome.value[j].expected_bonus,
                               recommendations[i].expected_bonus) =>
                          \E k \in 1..Len(outcome.value) :
                              outcome.value[k].horse_label = i

\* Rank 5 was supplied, has no statistic while other ranks have one, and is
\* among the three selections returned.
C12_Witness ==
    /\ SingleEnded
    /\ outcome.status = "ok"
    /\ args.num_tickets = 3
    /\ 5 \notin RanksWithHistory
    /\ Cardinality(RanksWithHistory) >= 2
    /\ \E j \in 1..Len(outcome.value) : outcome.value[j].popularity_rank = 5

====
